---- MODULE Spec2Model ----
(***************************************************************************)
(* Model of the credential refresh coordinator                             *)
(* (src/utils/authenticatedFetch.ts): the module-level auth reference, the *)
(* single-flight refresh marker, and the authenticatedFetch calls that     *)
(* run concurrently on the JavaScript event loop; and of the order         *)
(* tracking synchronizer: the OrderTrackingProvider (polling, dismissal)   *)
(* and the countdown of the order tracking screen                          *)
(* (src/app/order-tracking.tsx).                                           *)
(*                                                                         *)
(* Spec is the coordinator, SyncSpec the synchronizer; each leaves the     *)
(* other's variables at their initial values.                              *)
(*                                                                         *)
(* One action is one run of the event loop between two suspension points:  *)
(* a handler runs from the event that wakes it (a call, a network          *)
(* response, the end of logout) up to the next await of an external        *)
(* event.  Continuations that only wait on an already settled promise run  *)
(* in the same microtask drain and are part of the same action.            *)
(***************************************************************************)
EXTENDS Integers, FiniteSets, Sequences, TLC

VARIABLES
    authRef,          \* module variable authRef: "null", or "session" once the
                      \* auth context has registered itself
    isRefreshing,     \* module variable isRefreshing
    refreshPromise,   \* module variable refreshPromise (0 = null, else promise id)
    session,          \* the auth context's state behind setToken / logout
    prom,             \* the promises created by refreshAccessToken
    refreshCalls,     \* number of requests sent to the refresh endpoint
    call              \* the authenticatedFetch invocations

\* OrderTrackingProvider and OrderTrackingScreen
VARIABLES
    authToken,              \* useAuth().token (NoToken: null)
    user,                   \* useAuth().user is present
    activeOrder,            \* state activeOrder (NoOrder: null)
    loading,                \* state loading
    error,                  \* state error (NoError: null)
    isPollingEnabled,       \* state isPollingEnabled
    dismissedOrderId,       \* state dismissedOrderId (NoId: null)
    interval,               \* number of live polling interval timers
    logged,                 \* the response status fetchActiveOrder logged last
    fetches,                \* the fetchActiveOrder invocations awaiting a response
    timeRemainingSeconds,   \* screen state timeRemainingSeconds
    countdownInitialized,   \* screen state countdownInitialized (NoId: null)
    now,                    \* the device clock, in seconds
    saving,                 \* the saveTip invocation awaiting its POST, if any
    mounted                 \* what is mounted: "provider" (the provider alone),
                            \* "screen" (and the tracking screen), "gone" (nothing)

\* OrderTrackingScreen, the tip entry
VARIABLES
    selectedTip,            \* screen state selectedTip (NoTip: null)
    customTipAmount,        \* screen state customTipAmount, a sequence of characters
    showCustomTipModal,     \* screen state showCustomTipModal
    alert                   \* the Alert of the tip entry that is showing, if any

\* OrderTrackingScreen, the rating of the delivery partner
VARIABLES
    partnerRating,          \* screen state partnerRating
    submittingRating,       \* screen state submittingRating
    ratePosts               \* the rate-partner POSTs awaiting a response

\* one function taken alone
VARIABLES
    arguments,              \* what the function is applied to (NoArguments: nothing)
    result                  \* what it gave (NoResult: not applied yet)

coordVars == <<authRef, isRefreshing, refreshPromise, session, prom, refreshCalls, call>>

tipVars == <<selectedTip, customTipAmount, showCustomTipModal, alert>>

pureVars == <<arguments, result>>

ratingVars == <<partnerRating, submittingRating, ratePosts>>

\* the synchronizer's variables other than those of the tip entry
trackVars == <<authToken, user, activeOrder, loading, error, isPollingEnabled,
               dismissedOrderId, interval, logged, fetches, timeRemainingSeconds,
               countdownInitialized, now, mounted>>

syncVars == <<authToken, user, activeOrder, loading, error, isPollingEnabled,
              dismissedOrderId, interval, logged, fetches, timeRemainingSeconds,
              countdownInitialized, now, saving, mounted,
              selectedTip, customTipAmount, showCustomTipModal, alert>>

vars == <<authRef, isRefreshing, refreshPromise, session, prom, refreshCalls, call,
          authToken, user, activeOrder, loading, error, isPollingEnabled,
          dismissedOrderId, interval, logged, fetches, timeRemainingSeconds,
          countdownInitialized, now, saving, mounted,
          selectedTip, customTipAmount, showCustomTipModal, alert,
          partnerRating, submittingRating, ratePosts,
          arguments, result>>

----------------------------------------------------------------------------
(* Bounds *)

NumCalls == 2

Calls == 1..NumCalls

\* every call starts at most one refresh, so NumCalls promises are enough
PromIds == 1..NumCalls

(* Values *)

\* null / undefined / missing: every falsy token is 0
NoToken == 0

\* the access token and refresh token handed out by login
LoginToken == 1

\* the access token the refresh endpoint issues in answer to its p-th request:
\* every refresh issues a token of its own
FreshToken(p) == LoginToken + p

\* HTTP statuses the backend answers with; 0 stands for "no response"
OkStatus == 200
Unauthorized == 401
Forbidden == 403
NotFound == 404

\* no response status: nothing logged yet, or a fetch that rejected
NoStatus == 0
ServerError == 500

Statuses == {OkStatus, Unauthorized, Forbidden, ServerError}

\* one authenticatedFetch invocation.  pc: where it is suspended; sent: the
\* tokens of the requests it has issued; status1, status2: the statuses of
\* the first and second response; awaits: the promise refreshAccessToken
\* returned (0: none); newToken: what that promise yielded; retAttempt,
\* retStatus: the response returned to the caller.  noRefreshYet records,
\* for the concurrency claims, that no refresh request had ever been sent
\* when the call was made.
NoCall ==
    [pc |-> "init", sent |-> <<>>, status1 |-> 0, status2 |-> 0, awaits |-> 0,
     newToken |-> NoToken, retAttempt |-> 0, retStatus |-> 0,
     noRefreshYet |-> FALSE]

\* one promise created by refreshAccessToken.  phase: unused, fetch (request
\* on the wire), logout (awaiting authRef.logout()), settled; status: the
\* status of the endpoint's response; threw: the catch block ran; value:
\* what the promise resolved to; by: the call that created it.
NoProm ==
    [phase |-> "unused", status |-> 0, value |-> NoToken,
     by |-> 0, threw |-> FALSE, setTokenCalls |-> 0, logoutCalls |-> 0]

----------------------------------------------------------------------------
(* Values of the synchronizer *)

\* order ids the backend hands out; NoId is null
NumOrderIds == 2

OrderIds == 1..NumOrderIds

NoId == 0

\* fetchActiveOrder invocations that may await their response together
MaxFetches == 2

\* seconds the clock may advance
MaxSeconds == 2

\* order_status, with "preparing" standing for every status that is neither
\* delivered nor one of the countdown's valid statuses (assigning, arrived)
OrderStatuses == {"preparing", "assigned", "out_for_delivery", "delivered"}

\* let estimatedMinutes = 30
DefaultMinutes == 30

\* the device clock at the start, late enough for an order to have been
\* assigned more than a countdown ago
ClockStart == 2 * DefaultMinutes * 60

\* absent assigned_at
NoTime == 0

\* assigned_at and estimated_delivery_time (minutes) of the orders the backend
\* reports: no assigned_at with an estimate of 200, or an estimate of
\* DefaultMinutes with an assigned_at one second short of DefaultMinutes
\* before ClockStart
Timings ==
    {[assignedAt |-> NoTime, est |-> 200],
     [assignedAt |-> ClockStart - DefaultMinutes * 60 + 1, est |-> DefaultMinutes]}

\* the orders GET /orders/active may report
Orders ==
    {[id |-> i, status |-> s, assignedAt |-> t.assignedAt, est |-> t.est] :
        i \in OrderIds, s \in OrderStatuses, t \in Timings}

\* activeOrder === null
NoOrder == [id |-> NoId, status |-> "none", assignedAt |-> NoTime, est |-> 0]

\* error === null, and the messages of the errors fetchActiveOrder catches
NoError == "null"

ErrorMessages == {"Failed to fetch: 500", "Network request failed", "JSON Parse error"}

\* timeRemainingSeconds: null, or a number of seconds
NullSeconds == [isNull |-> TRUE, v |-> 0]

Seconds(v) == [isNull |-> FALSE, v |-> v]

\* what a fetchActiveOrder invocation keeps of the render that made it (the
\* dismissedOrderId of its closure) and whether refreshActiveOrder awaits it
FetchKinds == [dismissed : {NoId} \cup OrderIds, manual : BOOLEAN]

\* selectedTip === null
NoTip == -1

\* the tip buttons: [20, 30, 50].map(...), and handleTipSelection(0) of the
\* Custom button
PresetTips == {20, 30, 50}

CustomTipOption == 0

\* if (amount > 500)
TipCap == 500

\* the TextInput of the custom tip: maxLength={3}
MaxLength == 3

\* the characters typed into it: two digits, and the minus sign and the
\* decimal point of a numeric keyboard
Chars == {"0", "5", "-", "."}

Texts == UNION {[1..n -> Chars] : n \in 0..MaxLength}

\* no alert is showing
NoAlert == [title |-> "none", message |-> "", amount |-> NoTip,
            skip |-> FALSE, dismissed |-> NoId]

\* Alert.alert('Error', message)
ErrorAlert(message) == [title |-> "Error", message |-> message, amount |-> NoTip,
                        skip |-> FALSE, dismissed |-> NoId]

\* no saveTip is awaiting its POST
NoSave == [pending |-> FALSE, amount |-> NoTip, skip |-> FALSE,
           dismissed |-> NoId, screen |-> FALSE]

\* a saveTip(amount) awaiting its POST, with what the refreshActiveOrder of
\* its render keeps (whether its fetchActiveOrder skips, and its
\* dismissedOrderId) and whether the screen it belongs to is still mounted
Save(amount, skip, dismissed) ==
    [pending |-> TRUE, amount |-> amount, skip |-> skip,
     dismissed |-> dismissed, screen |-> TRUE]

----------------------------------------------------------------------------
(* Init: the module has been loaded, nothing is registered, no call made,  *)
(* nobody is logged in; the provider is mounted with its initial state,    *)
(* the tracking screen is not open.                                        *)

SyncInit ==
    /\ authToken = NoToken
    /\ user = FALSE
    /\ activeOrder = NoOrder
    /\ loading = FALSE
    /\ error = NoError
    /\ isPollingEnabled = TRUE
    /\ dismissedOrderId = NoId
    /\ interval = 0
    /\ logged = NoStatus
    /\ fetches = [f \in FetchKinds |-> 0]
    /\ timeRemainingSeconds = NullSeconds
    /\ countdownInitialized = NoId
    /\ now = ClockStart
    /\ saving = NoSave
    /\ mounted = "provider"
    /\ selectedTip = NoTip
    /\ customTipAmount = <<>>
    /\ showCustomTipModal = FALSE
    /\ alert = NoAlert
    /\ partnerRating = 0
    /\ submittingRating = FALSE
    /\ ratePosts = <<>>

\* no function is being looked at alone
NoArguments == [of |-> "none"]

NoResult == [of |-> "none"]

CoordInit ==
    /\ authRef = "null"
    /\ isRefreshing = FALSE
    /\ refreshPromise = 0
    /\ session = [token |-> NoToken, refreshTokenValue |-> NoToken]
    /\ prom = [p \in PromIds |-> NoProm]
    /\ refreshCalls = 0
    /\ call = [c \in Calls |-> NoCall]

Init ==
    /\ SyncInit
    /\ CoordInit
    /\ arguments = NoArguments
    /\ result = NoResult

----------------------------------------------------------------------------
(* The auth context (external collaborator of the coordinator) *)

\* setAuthRef(ref): the provider registers the session; from then on
\* authRef.token and authRef.refreshTokenValue read the session's tokens
SetAuthRef ==
    /\ authRef = "null"
    /\ authRef' = "session"
    /\ UNCHANGED <<isRefreshing, refreshPromise, session, prom, refreshCalls, call>>
    /\ UNCHANGED <<syncVars, pureVars, ratingVars>>

\* ref.setToken(token): the context stores the access token
SetToken(s, token) == [s EXCEPT !.token = token]

\* ref.logout(): the context drops both tokens
Logout(s) == [s EXCEPT !.token = NoToken, !.refreshTokenValue = NoToken]

Login ==
    /\ session.token = NoToken
    /\ session' = [token |-> LoginToken, refreshTokenValue |-> LoginToken]
    /\ UNCHANGED <<authRef, isRefreshing, refreshPromise, prom, refreshCalls, call>>
    /\ UNCHANGED <<syncVars, pureVars, ratingVars>>

UserLogout ==
    /\ session # Logout(session)
    /\ session' = Logout(session)
    /\ UNCHANGED <<authRef, isRefreshing, refreshPromise, prom, refreshCalls, call>>
    /\ UNCHANGED <<syncVars, pureVars, ratingVars>>

----------------------------------------------------------------------------
(* Conditions of the coordinator's code *)

\* (variant: the guard is missing)
NotInitialized_Ignored == FALSE

\* authenticatedFetch: if (!authRef) throw
NotInitialized == authRef = "null"

\* (variant: the refresh token is looked at only when no refresh is pending)
NoRefreshToken_AfterJoin ==
    /\ ~(isRefreshing /\ refreshPromise # 0)
    /\ (authRef = "null" \/ session.refreshTokenValue = NoToken)

\* (variant: the refresh token is not looked at)
NoRefreshToken_Ignored == FALSE

\* refreshAccessToken: if (!authRef || !authRef.refreshTokenValue) return null
NoRefreshToken == authRef = "null" \/ session.refreshTokenValue = NoToken

\* (variant: the pending promise is never reused)
AlreadyRefreshing_Never == FALSE

\* refreshAccessToken: if (isRefreshing && refreshPromise) return refreshPromise
AlreadyRefreshing == isRefreshing /\ refreshPromise # 0

\* (variant: 403 is treated as an expired token too)
IsUnauthorized_Or403(status) == status \in {Unauthorized, Forbidden}

\* authenticatedFetch: if (response.status === 401)
IsUnauthorized(status) == status = Unauthorized

\* (variant: every response counts as ok)
ResponseOk_Always(status) == TRUE

\* refreshAccessToken: response.ok
ResponseOk(status) == status \in 200..299

\* (variant: only 401 logs out)
RefreshTokenInvalid_Only401(status) == status = Unauthorized

\* (variant: every failed refresh logs out)
RefreshTokenInvalid_AnyFailure(status) == TRUE

\* refreshAccessToken: if (response.status === 401 || response.status === 403)
RefreshTokenInvalid(status) == status \in {Unauthorized, Forbidden}

\* (variant: the request is retried whatever the refresh yielded)
ShouldRetry_Always(newToken) == TRUE

\* authenticatedFetch: if (newToken)
ShouldRetry(newToken) == newToken # NoToken

\* (variant: the marker is not cleared)
Finally_KeepMarker == [isRefreshing |-> isRefreshing, refreshPromise |-> refreshPromise]

\* refreshAccessToken: finally { isRefreshing = false; refreshPromise = null }
Finally == [isRefreshing |-> FALSE, refreshPromise |-> 0]

----------------------------------------------------------------------------
(* authenticatedFetch *)

\* return response, after the given attempt
Return(cr, attempt, status) ==
    [cr EXCEPT !.pc = "returned", !.retAttempt = attempt, !.retStatus = status]

\* makeRequest(token): one more request to the target url, carrying token
MakeRequest(cr, token, pc) ==
    [cr EXCEPT !.pc = pc, !.sent = Append(@, token)]

\* (variant: the retry carries the token of the first request again)
AfterRefresh_OldToken(cr, newToken) ==
    IF ShouldRetry(newToken)
    THEN MakeRequest([cr EXCEPT !.newToken = newToken], cr.sent[1], "req2")
    ELSE Return([cr EXCEPT !.newToken = newToken], 1, cr.status1)

\* the rest of authenticatedFetch once refreshAccessToken has yielded newToken
AfterRefresh(cr, newToken) ==
    IF ShouldRetry(newToken)
    THEN MakeRequest([cr EXCEPT !.newToken = newToken], newToken, "req2")
    ELSE Return([cr EXCEPT !.newToken = newToken], 1, cr.status1)

\* the calls suspended on promise p continue when it settles with value
Resume(p, value) ==
    [c \in Calls |->
        IF call[c].pc = "refresh" /\ call[c].awaits = p
        THEN AfterRefresh(call[c], value)
        ELSE call[c]]

\* authenticatedFetch(url, options) is called: guard, then the first request
Call(c) ==
    /\ call[c].pc = "init"
    /\ IF NotInitialized
       THEN call' = [call EXCEPT ![c].pc = "threw"]
       ELSE call' = [call EXCEPT ![c] =
                        MakeRequest([@ EXCEPT !.noRefreshYet = (refreshCalls = 0)],
                                    session.token, "req1")]
    /\ UNCHANGED <<authRef, isRefreshing, refreshPromise, session, prom, refreshCalls>>
    /\ UNCHANGED <<syncVars, pureVars, ratingVars>>

\* the first request is answered with status: pass through, or on 401 run
\* refreshAccessToken up to its first suspension
FirstResponse(c, status) ==
    /\ call[c].pc = "req1"
    /\ LET cr == [call[c] EXCEPT !.status1 = status]
       IN  IF ~IsUnauthorized(status)
           THEN /\ call' = [call EXCEPT ![c] = Return(cr, 1, status)]
                /\ UNCHANGED <<isRefreshing, refreshPromise, prom, refreshCalls>>
           ELSE IF NoRefreshToken
           THEN /\ call' = [call EXCEPT ![c] = AfterRefresh(cr, NoToken)]
                /\ UNCHANGED <<isRefreshing, refreshPromise, prom, refreshCalls>>
           ELSE IF AlreadyRefreshing
           THEN /\ call' = [call EXCEPT ![c] = [cr EXCEPT !.pc = "refresh",
                                                          !.awaits = refreshPromise]]
                /\ UNCHANGED <<isRefreshing, refreshPromise, prom, refreshCalls>>
           ELSE LET p == refreshCalls + 1
                IN  /\ isRefreshing' = TRUE
                    /\ refreshPromise' = p
                    /\ refreshCalls' = p
                    /\ prom' = [prom EXCEPT ![p] = [NoProm EXCEPT !.phase = "fetch",
                                                                  !.by = c]]
                    /\ call' = [call EXCEPT ![c] = [cr EXCEPT !.pc = "refresh",
                                                              !.awaits = p]]
    /\ UNCHANGED <<authRef, session>>
    /\ UNCHANGED <<syncVars, pureVars, ratingVars>>

\* a request to the target url fails without a response: fetch rejects and
\* authenticatedFetch rejects with it
RequestFails(c) ==
    /\ call[c].pc \in {"req1", "req2"}
    /\ call' = [call EXCEPT ![c].pc = "threw"]
    /\ UNCHANGED <<authRef, isRefreshing, refreshPromise, session, prom, refreshCalls>>
    /\ UNCHANGED <<syncVars, pureVars, ratingVars>>

\* (variant: a 401 on the retry is retried once more)
SecondResponse_RetryAgain(c, status) ==
    /\ call[c].pc = "req2"
    /\ call' = [call EXCEPT ![c] =
                    IF IsUnauthorized(status) /\ Len(@.sent) < 3
                    THEN MakeRequest([@ EXCEPT !.status2 = status], @.newToken, "req2")
                    ELSE Return([@ EXCEPT !.status2 = status], 2, status)]
    /\ UNCHANGED <<authRef, isRefreshing, refreshPromise, session, prom, refreshCalls>>
    /\ UNCHANGED <<syncVars, pureVars, ratingVars>>

\* the retried request is answered: that response is returned
SecondResponse(c, status) ==
    /\ call[c].pc = "req2"
    /\ call' = [call EXCEPT ![c] = Return([@ EXCEPT !.status2 = status], 2, status)]
    /\ UNCHANGED <<authRef, isRefreshing, refreshPromise, session, prom, refreshCalls>>
    /\ UNCHANGED <<syncVars, pureVars, ratingVars>>

----------------------------------------------------------------------------
(* refreshAccessToken: the body of the promise *)

\* the promise settles with value: finally block, then the waiting calls
Settle(p, pr, value) ==
    /\ prom' = [prom EXCEPT ![p] = [pr EXCEPT !.phase = "settled", !.value = value]]
    /\ isRefreshing' = Finally.isRefreshing
    /\ refreshPromise' = Finally.refreshPromise
    /\ call' = Resume(p, value)

\* the refresh endpoint answers with status and, in a 2xx body, access_token
RefreshResponse(p, status, token) ==
    /\ prom[p].phase = "fetch"
    /\ LET pr == [prom[p] EXCEPT !.status = status]
       IN  IF ~ResponseOk(status)
           THEN IF RefreshTokenInvalid(status)
                THEN /\ prom' = [prom EXCEPT ![p] = [pr EXCEPT !.phase = "logout",
                                                               !.logoutCalls = @ + 1]]
                     /\ UNCHANGED <<isRefreshing, refreshPromise, session, call>>
                ELSE /\ Settle(p, pr, NoToken)
                     /\ UNCHANGED session
           ELSE /\ session' = SetToken(session, token)
                /\ Settle(p, [pr EXCEPT !.setTokenCalls = @ + 1], token)
    /\ UNCHANGED <<authRef, refreshCalls>>
    /\ UNCHANGED <<syncVars, pureVars, ratingVars>>

\* await authRef.logout() completes: the session is gone, the refresh yields null
LogoutDone(p) ==
    /\ prom[p].phase = "logout"
    /\ session' = Logout(session)
    /\ Settle(p, prom[p], NoToken)
    /\ UNCHANGED <<authRef, refreshCalls>>
    /\ UNCHANGED <<syncVars, pureVars, ratingVars>>

\* the catch block: fetch rejects (status 0) or a 2xx body is not JSON
RefreshThrows(p, status) ==
    /\ prom[p].phase = "fetch"
    /\ Settle(p, [prom[p] EXCEPT !.status = status, !.threw = TRUE], NoToken)
    /\ UNCHANGED <<authRef, session, refreshCalls>>
    /\ UNCHANGED <<syncVars, pureVars, ratingVars>>

----------------------------------------------------------------------------
Next ==
    \/ SetAuthRef
    \/ Login
    \/ UserLogout
    \/ \E c \in Calls : Call(c)
    \/ \E c \in Calls, status \in Statuses : FirstResponse(c, status)
    \/ \E c \in Calls : RequestFails(c)
    \/ \E c \in Calls, status \in Statuses : SecondResponse(c, status)
    \/ \E p \in PromIds, status \in Statuses :
           \E token \in {FreshToken(p), NoToken} : RefreshResponse(p, status, token)
    \/ \E p \in PromIds : LogoutDone(p)
    \/ \E p \in PromIds, status \in {0, OkStatus} : RefreshThrows(p, status)

Spec == Init /\ [][Next]_vars

----------------------------------------------------------------------------
(* makeRequest taken alone: the headers of the request it sends *)

\* the names a caller may give in options.headers, in the order its object
\* lists them, and the values it gives them; Absent: not given
HeaderNames ==
    <<"authorization", "Authorization", "content-type", "Content-Type", "X-Request-Id">>

HeaderValues == {"a", "b"}

Absent == "absent"

CallerHeaders == [1..Len(HeaderNames) -> HeaderValues \cup {Absent}]

\* the object options.headers: its properties in order
RECURSIVE ObjectOf(_, _)
ObjectOf(given, i) ==
    IF i > Len(HeaderNames) THEN <<>>
    ELSE (IF given[i] = Absent
          THEN <<>>
          ELSE <<[name |-> HeaderNames[i], value |-> given[i]]>>)
         \o ObjectOf(given, i + 1)

\* a property of an object literal: the property of that very name gets the
\* value, keeping its place, or a new one is added at the end
Assign(object, name, value) ==
    IF \E i \in 1..Len(object) : object[i].name = name
    THEN [i \in 1..Len(object) |->
             IF object[i].name = name
             THEN [name |-> name, value |-> value]
             ELSE object[i]]
    ELSE Append(object, [name |-> name, value |-> value])

\* `Bearer ${token}`
Bearer(token) == "Bearer " \o (IF token = NoToken THEN "null" ELSE ToString(token))

\* makeRequest: { ...options.headers, 'Authorization': ..., 'Content-Type': ... }
RequestHeaders(given, token) ==
    Assign(Assign(ObjectOf(given, 1), "Authorization", Bearer(token)),
           "Content-Type", "application/json")

\* header names do not differ by case
Lower(name) ==
    CASE name = "Authorization" -> "authorization"
      [] name = "Content-Type" -> "content-type"
      [] name = "X-Request-Id" -> "x-request-id"
      [] OTHER -> name

\* fetch(url, { headers }): the headers of the request, made of the object's
\* properties in order; the values of properties that name the same header
\* are combined
Headers(object) ==
    [n \in {Lower(object[i].name) : i \in 1..Len(object)} |->
        LET same == SelectSeq(object, LAMBDA e : Lower(e.name) = n)
        IN  [i \in 1..Len(same) |-> same[i].value]]

HeaderInit ==
    /\ SyncInit
    /\ CoordInit
    /\ arguments \in [of : {"makeRequest"}, headers : CallerHeaders,
                       token : {NoToken, LoginToken}]
    /\ result = NoResult

\* makeRequest(token) with the caller's options.headers
MakeRequestAlone ==
    /\ arguments.of = "makeRequest"
    /\ result = NoResult
    /\ result' = [of |-> "makeRequest",
                  headers |-> Headers(RequestHeaders(arguments.headers,
                                                     arguments.token))]
    /\ UNCHANGED <<coordVars, syncVars, ratingVars, arguments>>

HeaderNext == MakeRequestAlone

HeaderSpec == HeaderInit /\ [][HeaderNext]_vars

----------------------------------------------------------------------------
(* Conditions and computations of the synchronizer's code *)

\* fetchActiveOrder and the polling effect: if (!token || !user || !isPollingEnabled)
SkipFetch(t, u, enabled) == t = NoToken \/ ~u \/ ~enabled

\* fetchActiveOrder: if (dismissedOrderId && data.id !== dismissedOrderId)
NewOrderSeen(dismissed, data) == dismissed # NoId /\ data.id # dismissed

\* fetchActiveOrder: if (dismissedOrderId === data.id && data.order_status === 'delivered')
StillDismissed(dismissed, data) == dismissed = data.id /\ data.status = "delivered"

\* any active order can be dismissed
CanDismiss_AnyOrder(order) == order # NoOrder

\* dismissBanner: if (activeOrder?.order_status === 'delivered')
CanDismiss(order) == order.status = "delivered"

\* every status counts down
ValidStatus_Any(status) == TRUE

\* countdown init effect: validStatuses.includes(orderStatus)
ValidStatus(status) == status \in {"assigned", "out_for_delivery"}

\* an init effect that recomputes on every run
AlreadyInitialized_Never(initialized, orderId) == FALSE

\* countdown init effect: if (countdownInitialized === orderId) return
AlreadyInitialized(initialized, orderId) == initialized = orderId

Min(a, b) == IF a < b THEN a ELSE b

Max(a, b) == IF a > b THEN a ELSE b

\* countdown init effect: estimatedMinutes starts at 30, is divided by 60
\* if above 180, then capped between 10 and 60
EstimatedMinutes ==
    LET converted == IF DefaultMinutes > 180 THEN DefaultMinutes \div 60
                                            ELSE DefaultMinutes
    IN  Max(10, Min(converted, 60))

\* an initial value without the floor at 0
InitialSeconds_NoFloor(order, clock) ==
    LET remainingSeconds == EstimatedMinutes * 60
    IN  IF order.assignedAt # NoTime
        THEN remainingSeconds - (clock - order.assignedAt)
        ELSE remainingSeconds

\* countdown init effect: estimatedMinutes * 60, less the seconds elapsed
\* since assigned_at (floored at 0) when the order has one
InitialSeconds(order, clock) ==
    LET remainingSeconds == EstimatedMinutes * 60
    IN  IF order.assignedAt # NoTime
        THEN Max(0, remainingSeconds - (clock - order.assignedAt))
        ELSE remainingSeconds

\* countdown tick effect: the interval exists unless
\* timeRemainingSeconds === null || timeRemainingSeconds <= 0
TimerRunning(remaining) == ~remaining.isNull /\ remaining.v > 0

\* a tick that never takes the last second off
TickValue_Stuck(prev) ==
    IF prev.isNull \/ prev.v <= 1 THEN prev ELSE Seconds(prev.v - 1)

\* countdown tick: prev === null || prev <= 0 ? 0 : prev - 1
TickValue(prev) ==
    IF prev.isNull \/ prev.v <= 0 THEN Seconds(0) ELSE Seconds(prev.v - 1)

\* the countdown init effect, run by a commit that changes activeOrder from
\* old to new: it runs only if activeOrder?.id or activeOrder?.order_status
\* changed
CountdownEffect(old, new, remaining, initialized, clock) ==
    LET same == [remaining |-> remaining, initialized |-> initialized]
        none == [remaining |-> NullSeconds, initialized |-> NoId]
    IN  IF <<new.id, new.status>> = <<old.id, old.status>> THEN same
        ELSE IF new = NoOrder THEN none
        ELSE IF ~ValidStatus(new.status) THEN none
        ELSE IF AlreadyInitialized(initialized, new.id) THEN same
        ELSE [remaining |-> Seconds(InitialSeconds(new, clock)),
              initialized |-> new.id]

----------------------------------------------------------------------------
(* OrderTrackingProvider *)

\* the answers to GET /orders/active: a status (NoStatus: the request failed
\* without one) and, with a 2xx, a body: an order, null, or not JSON
Response(status, body, data) == [status |-> status, body |-> body, data |-> data]

Responses ==
    {Response(st, "none", NoOrder) :
        st \in {NoStatus, NotFound, Unauthorized, ServerError}}
    \cup {Response(OkStatus, "garbled", NoOrder), Response(OkStatus, "empty", NoOrder)}
    \cup {Response(OkStatus, "json", o) : o \in Orders}

\* the provider's state that fetchActiveOrder, dismissBanner and
\* resumePolling set
Provider ==
    [activeOrder |-> activeOrder, error |-> error,
     dismissedOrderId |-> dismissedOrderId, isPollingEnabled |-> isPollingEnabled]

\* a catch block that clears the order and records nothing
Caught_Silent(st, message) == [st EXCEPT !.activeOrder = NoOrder]

\* a catch block that records the error and keeps the active order
Caught_KeepOrder(st, message) == [st EXCEPT !.error = message]

\* fetchActiveOrder: catch (err) { setError(message); setActiveOrder(null) }
Caught(st, message) == [st EXCEPT !.error = message, !.activeOrder = NoOrder]

\* a 404 branch that clears the order only
NoActiveOrder_OrderOnly(st) == [st EXCEPT !.activeOrder = NoOrder]

\* fetchActiveOrder, if (response.status === 404): setActiveOrder(null);
\* setError(null); setDismissedOrderId(null)
NoActiveOrder(st) ==
    [st EXCEPT !.activeOrder = NoOrder, !.error = NoError, !.dismissedOrderId = NoId]

\* the fetched order is merged into the one on display: the assigned_at of
\* the previous order survives
Accept_Merge(st, data) ==
    [st EXCEPT !.activeOrder = IF st.activeOrder = NoOrder
                               THEN data
                               ELSE [data EXCEPT !.assignedAt =
                                                     st.activeOrder.assignedAt],
               !.error = NoError]

\* fetchActiveOrder: setActiveOrder(data); setError(null)
Accept(st, data) == [st EXCEPT !.activeOrder = data, !.error = NoError]

\* fetchActiveOrder from the response on: the state it sets, given the
\* dismissedOrderId of its closure
Handled(st, dismissed, r) ==
    IF r.status = NoStatus THEN Caught(st, "Network request failed")
    ELSE IF r.status = NotFound THEN NoActiveOrder(st)
    ELSE IF r.status = Unauthorized THEN [st EXCEPT !.activeOrder = NoOrder]
    ELSE IF ~ResponseOk(r.status) THEN Caught(st, "Failed to fetch: 500")
    ELSE IF r.body = "garbled" THEN Caught(st, "JSON Parse error")
    ELSE IF r.body = "empty" THEN [st EXCEPT !.activeOrder = NoOrder]
    ELSE LET seen == IF NewOrderSeen(dismissed, r.data)
                     THEN [st EXCEPT !.dismissedOrderId = NoId,
                                     !.isPollingEnabled = TRUE]
                     ELSE st
         IN  IF StillDismissed(dismissed, r.data)
             THEN seen
             ELSE Accept(seen, r.data)

\* the invocations awaiting a response
RECURSIVE Sum(_, _)
Sum(fs, kinds) ==
    IF kinds = {} THEN 0
    ELSE LET k == CHOOSE x \in kinds : TRUE
         IN  fs[k] + Sum(fs, kinds \ {k})

Total(fs) == Sum(fs, FetchKinds)

\* fetchActiveOrder up to its await, in a render with the given values
FetchActiveOrder(fs, t, u, enabled, dismissed) ==
    IF SkipFetch(t, u, enabled)
    THEN fs
    ELSE [fs EXCEPT ![[dismissed |-> dismissed, manual |-> FALSE]] = @ + 1]

\* a polling effect that returns no cleanup
EffectCleanup_Leak(timers) == timers

\* polling effect: return () => { clearInterval(interval) }
EffectCleanup(timers) == timers - 1

\* the render that commits the new state st, auth values t and u, loading ld
\* and pending invocations fs, followed by its effects: the polling effect
\* (cleanup of the previous run, immediate fetch and a new interval) if one
\* of token, user, isPollingEnabled, dismissedOrderId changed, and the
\* countdown init effect
Commit(st, t, u, ld, fs) ==
    LET ran == <<t, u, st.isPollingEnabled, st.dismissedOrderId>>
                   # <<authToken, user, isPollingEnabled, dismissedOrderId>>
        cleared == IF ran /\ ~SkipFetch(authToken, user, isPollingEnabled)
                   THEN EffectCleanup(interval) ELSE interval
        starts == ran /\ ~SkipFetch(t, u, st.isPollingEnabled)
        cd == IF mounted = "screen"
              THEN CountdownEffect(activeOrder, st.activeOrder, timeRemainingSeconds,
                                   countdownInitialized, now)
              ELSE [remaining |-> timeRemainingSeconds,
                    initialized |-> countdownInitialized]
    IN  /\ mounted # "gone"
        /\ UNCHANGED mounted
        /\ authToken' = t
        /\ user' = u
        /\ activeOrder' = st.activeOrder
        /\ error' = st.error
        /\ dismissedOrderId' = st.dismissedOrderId
        /\ isPollingEnabled' = st.isPollingEnabled
        /\ loading' = ld
        /\ interval' = IF starts THEN cleared + 1 ELSE cleared
        /\ fetches' = IF starts
                      THEN FetchActiveOrder(fs, t, u, st.isPollingEnabled,
                                            st.dismissedOrderId)
                      ELSE fs
        /\ Total(fetches') <= MaxFetches
        /\ timeRemainingSeconds' = cd.remaining
        /\ countdownInitialized' = cd.initialized
        /\ UNCHANGED now
        /\ UNCHANGED <<coordVars, pureVars, ratingVars>>

\* the auth context signs the user in: token and user appear
SignIn ==
    /\ authToken = NoToken
    /\ Commit(Provider, LoginToken, TRUE, loading, fetches)
    /\ UNCHANGED <<logged, saving, tipVars>>

\* the auth context signs the user out: token and user disappear
SignOut ==
    /\ authToken # NoToken
    /\ Commit(Provider, NoToken, FALSE, loading, fetches)
    /\ UNCHANGED <<logged, saving, tipVars>>

\* the coordinator has refreshed the access token: useAuth().token changes
TokenRefreshed ==
    /\ authToken = LoginToken
    /\ Commit(Provider, FreshToken(1), user, loading, fetches)
    /\ UNCHANGED <<logged, saving, tipVars>>

\* the polling interval fires: fetchActiveOrder()
PollTick ==
    /\ interval > 0
    /\ Commit(Provider, authToken, user, loading,
              FetchActiveOrder(fetches, authToken, user, isPollingEnabled,
                               dismissedOrderId))
    /\ UNCHANGED <<logged, saving, tipVars>>

\* the response r to the request of an invocation of kind f arrives: the
\* rest of fetchActiveOrder runs, logging the status if there is one, and
\* then the rest of refreshActiveOrder, setLoading(false), if it awaited it
PollResponse(f, r) ==
    /\ mounted # "gone"
    /\ fetches[f] > 0
    /\ Commit(Handled(Provider, f.dismissed, r), authToken, user,
              IF f.manual THEN FALSE ELSE loading,
              [fetches EXCEPT ![f] = @ - 1])
    /\ logged' = IF r.status = NoStatus THEN logged ELSE r.status
    /\ UNCHANGED <<saving, tipVars>>

\* a dismissal that also pauses polling
Dismissed_Pauses(st) ==
    [st EXCEPT !.dismissedOrderId = st.activeOrder.id, !.activeOrder = NoOrder,
               !.isPollingEnabled = FALSE]

\* dismissBanner: setDismissedOrderId(activeOrder.id); setActiveOrder(null)
Dismissed(st) ==
    [st EXCEPT !.dismissedOrderId = st.activeOrder.id, !.activeOrder = NoOrder]

\* dismissBanner()
DismissBanner ==
    /\ LET st == IF CanDismiss(activeOrder)
                 THEN Dismissed(Provider)
                 ELSE Provider
       IN  Commit(st, authToken, user, loading, fetches)
    /\ UNCHANGED <<logged, saving, tipVars>>

\* a resume that also drops the active order
Resumed_DropsOrder(st) ==
    [st EXCEPT !.isPollingEnabled = TRUE, !.dismissedOrderId = NoId,
               !.activeOrder = NoOrder]

\* resumePolling: setIsPollingEnabled(true); setDismissedOrderId(null)
Resumed(st) == [st EXCEPT !.isPollingEnabled = TRUE, !.dismissedOrderId = NoId]

\* resumePolling()
ResumePolling ==
    /\ Commit(Resumed(Provider), authToken, user, loading, fetches)
    /\ UNCHANGED <<logged, saving, tipVars>>

\* the tracking screen's one-second interval exists
CountdownTimer == mounted = "screen" /\ TimerRunning(timeRemainingSeconds)

\* a second passes: the clock advances and the countdown interval, if there
\* is one, fires
Second ==
    /\ now < ClockStart + MaxSeconds
    /\ now' = now + 1
    /\ timeRemainingSeconds' = IF CountdownTimer
                               THEN TickValue(timeRemainingSeconds)
                               ELSE timeRemainingSeconds
    /\ UNCHANGED <<authToken, user, activeOrder, loading, error, isPollingEnabled,
                   dismissedOrderId, interval, logged, fetches,
                   countdownInitialized, saving, mounted, tipVars>>
    /\ UNCHANGED <<coordVars, pureVars, ratingVars>>

\* the user opens the tracking screen: it mounts with no countdown and its
\* init effect runs on the active order
OpenTracking ==
    /\ mounted = "provider"
    /\ ~SkipFetch(authToken, user, TRUE)
    /\ mounted' = "screen"
    /\ LET cd == CountdownEffect(NoOrder, activeOrder, NullSeconds, NoId, now)
       IN  /\ timeRemainingSeconds' = cd.remaining
           /\ countdownInitialized' = cd.initialized
    /\ UNCHANGED <<authToken, user, activeOrder, loading, error, isPollingEnabled,
                   dismissedOrderId, interval, logged, fetches, now, saving,
                   tipVars>>
    /\ UNCHANGED <<coordVars, pureVars, ratingVars>>

\* the screen of a saveTip awaiting its POST unmounts
Detached(save) == [save EXCEPT !.screen = FALSE]

\* the tracking screen unmounts: its state is gone and the cleanup of the
\* tick effect clears the one-second interval; an alert still showing is
\* taken as cancelled
ScreenUnmounts ==
    /\ mounted' = "provider"
    /\ timeRemainingSeconds' = NullSeconds
    /\ countdownInitialized' = NoId
    /\ selectedTip' = NoTip
    /\ customTipAmount' = <<>>
    /\ showCustomTipModal' = FALSE
    /\ alert' = NoAlert
    /\ saving' = Detached(saving)
    /\ partnerRating' = 0
    /\ submittingRating' = FALSE
    /\ ratePosts' = [i \in 1..Len(ratePosts) |-> Detached(ratePosts[i])]
    /\ UNCHANGED <<authToken, user, activeOrder, loading, error, isPollingEnabled,
                   dismissedOrderId, interval, logged, fetches, now>>
    /\ UNCHANGED <<coordVars, pureVars>>

\* the user leaves the tracking screen: router.back(); no modal or alert is
\* in the way of the button
CloseTracking ==
    /\ mounted = "screen"
    /\ ~showCustomTipModal
    /\ alert = NoAlert
    /\ ~SkipFetch(authToken, user, TRUE)
    /\ ScreenUnmounts

\* RootLayoutNav, 100 ms after it saw no token or no user outside the auth
\* group: router.replace('/auth/login')
Redirect ==
    /\ mounted = "screen"
    /\ SkipFetch(authToken, user, TRUE)
    /\ ScreenUnmounts

\* the provider unmounts, and the screen with it: the cleanup of the polling
\* effect clears the interval and the state of both is gone
Unmount ==
    /\ mounted # "gone"
    /\ mounted' = "gone"
    /\ interval' = IF SkipFetch(authToken, user, isPollingEnabled)
                   THEN interval ELSE EffectCleanup(interval)
    /\ authToken' = NoToken
    /\ user' = FALSE
    /\ activeOrder' = NoOrder
    /\ error' = NoError
    /\ isPollingEnabled' = TRUE
    /\ dismissedOrderId' = NoId
    /\ timeRemainingSeconds' = NullSeconds
    /\ countdownInitialized' = NoId
    /\ loading' = FALSE
    /\ selectedTip' = NoTip
    /\ customTipAmount' = <<>>
    /\ showCustomTipModal' = FALSE
    /\ alert' = NoAlert
    /\ saving' = Detached(saving)
    /\ partnerRating' = 0
    /\ submittingRating' = FALSE
    /\ ratePosts' = [i \in 1..Len(ratePosts) |-> Detached(ratePosts[i])]
    /\ UNCHANGED <<logged, fetches, now>>
    /\ UNCHANGED <<coordVars, pureVars>>

\* a response arrives after the provider has unmounted: fetchActiveOrder logs
\* the status and its setState calls have nothing to set
LateResponse(f, r) ==
    /\ mounted = "gone"
    /\ fetches[f] > 0
    /\ fetches' = [fetches EXCEPT ![f] = @ - 1]
    /\ logged' = IF r.status = NoStatus THEN logged ELSE r.status
    /\ UNCHANGED <<authToken, user, activeOrder, loading, error, isPollingEnabled,
                   dismissedOrderId, interval, timeRemainingSeconds,
                   countdownInitialized, now, saving, mounted, tipVars>>
    /\ UNCHANGED <<coordVars, pureVars, ratingVars>>

SyncNext ==
    \/ SignIn
    \/ SignOut
    \/ TokenRefreshed
    \/ PollTick
    \/ \E f \in FetchKinds, r \in Responses : PollResponse(f, r)
    \/ DismissBanner
    \/ ResumePolling
    \/ Second
    \/ OpenTracking
    \/ CloseTracking
    \/ Redirect
    \/ Unmount
    \/ \E f \in FetchKinds, r \in Responses : LateResponse(f, r)

SyncSpec == Init /\ [][SyncNext]_vars

\* the provider alone: the tracking screen is never opened and the clock
\* stands still
ProviderNext ==
    \/ SignIn
    \/ SignOut
    \/ TokenRefreshed
    \/ PollTick
    \/ \E f \in FetchKinds, r \in Responses : PollResponse(f, r)
    \/ DismissBanner
    \/ ResumePolling

ProviderSpec == Init /\ [][ProviderNext]_vars

----------------------------------------------------------------------------
(* refreshActiveOrder and its callers in the tracking screen *)

\* refreshActiveOrder up to the await inside its fetchActiveOrder, which
\* skips or issues a request with the dismissedOrderId of its closure
RefreshFetches(fs, skip, dismissed) ==
    IF skip
    THEN fs
    ELSE [fs EXCEPT ![[dismissed |-> dismissed, manual |-> TRUE]] = @ + 1]

\* onRefresh: refreshActiveOrder() of the current render: setLoading(true),
\* fetchActiveOrder(), and setLoading(false) at once if that one skipped; no
\* modal or alert is in the way of the pull
RefreshActiveOrder ==
    /\ mounted = "screen"
    /\ ~showCustomTipModal
    /\ alert = NoAlert
    /\ LET skip == SkipFetch(authToken, user, isPollingEnabled)
       IN  Commit(Provider, authToken, user, ~skip,
                  RefreshFetches(fetches, skip, dismissedOrderId))
    /\ UNCHANGED <<logged, saving, tipVars>>

----------------------------------------------------------------------------
(* the tip entry of the tracking screen *)

\* parseInt(text): an optional sign, then the longest run of digits; NaN if
\* there is none. What follows the digits is ignored.
DigitValue(c) == IF c = "5" THEN 5 ELSE 0

IsDigit(c) == c \in {"0", "5"}

RECURSIVE LeadingDigits(_)
LeadingDigits(text) ==
    IF text = <<>> \/ ~IsDigit(Head(text))
    THEN <<>>
    ELSE <<Head(text)>> \o LeadingDigits(Tail(text))

RECURSIVE Decimal(_)
Decimal(digits) ==
    IF digits = <<>>
    THEN 0
    ELSE 10 * Decimal(SubSeq(digits, 1, Len(digits) - 1))
             + DigitValue(digits[Len(digits)])

ParseInt(text) ==
    LET negative == text # <<>> /\ Head(text) = "-"
        digits == LeadingDigits(IF negative THEN Tail(text) ELSE text)
    IN  IF digits = <<>>
        THEN [nan |-> TRUE, value |-> 0]
        ELSE [nan |-> FALSE,
              value |-> IF negative THEN 0 - Decimal(digits) ELSE Decimal(digits)]

\* a validation that knows no cap
TipRejection_NoCap(amount) ==
    IF amount.nan \/ amount.value <= 0
    THEN "Please enter a valid tip amount"
    ELSE "none"

\* handleCustomTipSubmit: the two tests on the parsed amount, and the message
\* of the error alert ("none": the amount passes)
TipRejection(amount) ==
    IF amount.nan \/ amount.value <= 0
    THEN "Please enter a valid tip amount"
    ELSE IF amount.value > TipCap THEN "Maximum tip amount is 500"
    ELSE "none"

\* confirmAndSaveTip(amount): the alert whose Add Tip button runs the saveTip
\* of this render, which keeps this render's refreshActiveOrder
ConfirmAndSaveTip(amount) ==
    [title |-> "Add Tip", message |-> "confirm", amount |-> amount,
     skip |-> SkipFetch(authToken, user, isPollingEnabled),
     dismissed |-> dismissedOrderId]

\* the tip section is rendered and its buttons are enabled: an order in
\* status assigned, disabled={savingTip}, nothing in front of the buttons
TipButtonsEnabled ==
    /\ mounted = "screen"
    /\ activeOrder # NoOrder
    /\ activeOrder.status = "assigned"
    /\ ~saving.pending
    /\ ~showCustomTipModal
    /\ alert = NoAlert

\* the custom tip modal is rendered and visible, with no alert over it
ModalShown ==
    /\ mounted = "screen"
    /\ activeOrder # NoOrder
    /\ showCustomTipModal
    /\ alert = NoAlert

\* handleTipSelection(amount)
HandleTipSelection(amount) ==
    /\ TipButtonsEnabled
    /\ IF amount = CustomTipOption
       THEN /\ showCustomTipModal' = TRUE
            /\ UNCHANGED <<selectedTip, alert>>
       ELSE /\ selectedTip' = amount
            /\ alert' = ConfirmAndSaveTip(amount)
            /\ UNCHANGED showCustomTipModal
    /\ UNCHANGED <<customTipAmount, saving>>
    /\ UNCHANGED trackVars
    /\ UNCHANGED <<coordVars, pureVars, ratingVars>>

\* onChangeText={setCustomTipAmount}
OnChangeText(text) ==
    /\ ModalShown
    /\ text # customTipAmount
    /\ customTipAmount' = text
    /\ UNCHANGED <<selectedTip, showCustomTipModal, alert, saving>>
    /\ UNCHANGED trackVars
    /\ UNCHANGED <<coordVars, pureVars, ratingVars>>

\* the Cancel button of the modal
CancelCustomTip ==
    /\ ModalShown
    /\ showCustomTipModal' = FALSE
    /\ customTipAmount' = <<>>
    /\ UNCHANGED <<selectedTip, alert, saving>>
    /\ UNCHANGED trackVars
    /\ UNCHANGED <<coordVars, pureVars, ratingVars>>

\* handleCustomTipSubmit
HandleCustomTipSubmit ==
    /\ ModalShown
    /\ LET amount == ParseInt(customTipAmount)
           message == TipRejection(amount)
       IN  IF message # "none"
           THEN /\ alert' = ErrorAlert(message)
                /\ UNCHANGED <<selectedTip, customTipAmount, showCustomTipModal>>
           ELSE /\ showCustomTipModal' = FALSE
                /\ selectedTip' = amount.value
                /\ alert' = ConfirmAndSaveTip(amount.value)
                /\ customTipAmount' = <<>>
    /\ UNCHANGED saving
    /\ UNCHANGED trackVars
    /\ UNCHANGED <<coordVars, pureVars, ratingVars>>

\* the alert is dismissed: OK of an error alert, Cancel of a confirmation
DismissAlert ==
    /\ alert # NoAlert
    /\ alert' = NoAlert
    /\ UNCHANGED <<selectedTip, customTipAmount, showCustomTipModal, saving>>
    /\ UNCHANGED trackVars
    /\ UNCHANGED <<coordVars, pureVars, ratingVars>>

\* Add Tip of the confirmation: saveTip(amount) up to its await: the POST is
\* sent with tip_amount: amount; the activeOrder of its render is not null
SaveTip ==
    /\ alert.title = "Add Tip"
    /\ ~saving.pending
    /\ saving' = Save(alert.amount, alert.skip, alert.dismissed)
    /\ alert' = NoAlert
    /\ UNCHANGED <<selectedTip, customTipAmount, showCustomTipModal>>
    /\ UNCHANGED trackVars
    /\ UNCHANGED <<coordVars, pureVars, ratingVars>>

\* the response to the add-tip POST arrives: setSelectedTip(amount) and the
\* refreshActiveOrder that saveTip has kept if response.ok,
\* setSelectedTip(null) otherwise
TipResponse(ok) ==
    /\ saving.pending
    /\ mounted # "gone"
    /\ saving' = NoSave
    /\ selectedTip' = IF ~saving.screen THEN selectedTip
                      ELSE IF ok THEN saving.amount ELSE NoTip
    /\ IF ok
       THEN Commit(Provider, authToken, user, ~saving.skip,
                   RefreshFetches(fetches, saving.skip, saving.dismissed))
       ELSE /\ UNCHANGED <<authToken, user, activeOrder, loading, error,
                           isPollingEnabled, dismissedOrderId, interval, fetches,
                           timeRemainingSeconds, countdownInitialized, now,
                           mounted>>
            /\ UNCHANGED <<coordVars, pureVars, ratingVars>>
    /\ UNCHANGED <<logged, customTipAmount, showCustomTipModal, alert>>

RefreshNext ==
    \/ SignIn
    \/ SignOut
    \/ PollTick
    \/ \E f \in FetchKinds, r \in Responses : PollResponse(f, r)
    \/ OpenTracking
    \/ CloseTracking
    \/ Redirect
    \/ RefreshActiveOrder
    \/ \E amount \in PresetTips : HandleTipSelection(amount)
    \/ SaveTip
    \/ \E ok \in BOOLEAN : TipResponse(ok)

RefreshSpec == Init /\ [][RefreshNext]_vars

TipNext ==
    \/ SignIn
    \/ \E f \in FetchKinds, r \in Responses : PollResponse(f, r)
    \/ OpenTracking
    \/ \E amount \in PresetTips \cup {CustomTipOption} : HandleTipSelection(amount)
    \/ \E text \in Texts : OnChangeText(text)
    \/ CancelCustomTip
    \/ HandleCustomTipSubmit
    \/ DismissAlert
    \/ SaveTip
    \/ \E ok \in BOOLEAN : TipResponse(ok)

TipSpec == Init /\ [][TipNext]_vars

----------------------------------------------------------------------------
(* Vocabulary of the properties *)

\* the refresh requests on the wire
InFlight == {p \in PromIds : prom[p].phase = "fetch"}

\* the refreshes that have started and not yet settled
Pending == {p \in PromIds : prom[p].phase \in {"fetch", "logout"}}

\* call c got a 401 first and has seen what refreshAccessToken yielded
Observed(c) ==
    call[c].status1 = Unauthorized /\ call[c].pc \in {"req2", "returned", "threw"}

\* in this step call c receives the response to its first request
GetsFirstResponse(c) == call[c].pc = "req1" /\ call'[c].status1 # 0

----------------------------------------------------------------------------
\* C1: in every reachable state, whatever the number of concurrent
\* authenticatedFetch calls and the order of their 401 responses, at most one
\* request to the refresh endpoint is on the wire.
C1_AtMostOneRefreshInFlight == Cardinality(InFlight) <= 1

\* two calls have both received a 401 and wait while one refresh request is out
C1_Witness ==
    \E c, d \in Calls :
        /\ c # d
        /\ call[c].pc = "refresh" /\ call[d].pc = "refresh"
        /\ Cardinality(InFlight) = 1

----------------------------------------------------------------------------
\* C2 as stated: calls that were all made before any refresh request was sent
\* (so their requests were out together when the first refresh started, with
\* no refresh in flight) and that each receive a 401 share one refresh network
\* call and observe the same result, in whatever order the 401 responses and
\* the refresh response arrive.
C2_Original ==
    \A c, d \in Calls :
        (/\ call[c].noRefreshYet /\ call[d].noRefreshYet
         /\ call[c].status1 = Unauthorized /\ call[d].status1 = Unauthorized
         /\ call[c].awaits # 0 /\ call[d].awaits # 0)
        => /\ call[c].awaits = call[d].awaits
           /\ (Observed(c) /\ Observed(d) => call[c].newToken = call[d].newToken)

\* all calls that awaited the same refresh observe the value it settled with
C2_SameResult ==
    \A c, d \in Calls :
        (call[c].awaits # 0 /\ call[c].awaits = call[d].awaits /\ Observed(c) /\ Observed(d))
        => /\ call[c].newToken = call[d].newToken
           /\ call[c].newToken = prom[call[c].awaits].value

\* every promise sent exactly one request to the refresh endpoint
C2_OneRequestPerRefresh ==
    refreshCalls = Cardinality({p \in PromIds : prom[p].phase # "unused"})

\* a 401 that arrives while a refresh is pending joins it and sends nothing
C2_JoinStep ==
    \A c \in Calls :
        (/\ GetsFirstResponse(c) /\ call'[c].status1 = Unauthorized
         /\ Pending # {} /\ ~NoRefreshToken)
        => /\ refreshCalls' = refreshCalls
           /\ prom' = prom
           /\ call'[c].pc = "refresh"
           /\ call'[c].awaits \in Pending

\* a 401 that arrives when no refresh is pending sends a refresh request
C2_StartStep ==
    \A c \in Calls :
        (/\ GetsFirstResponse(c) /\ call'[c].status1 = Unauthorized
         /\ Pending = {} /\ session.refreshTokenValue # NoToken)
        => /\ refreshCalls' = refreshCalls + 1
           /\ call'[c].awaits \notin {call[d].awaits : d \in Calls}

\* C2 (amended): all calls whose 401 arrives while a refresh is pending, the
\* session holding a refresh token, join that refresh: no further refresh
\* request is sent, and all calls that awaited the same refresh observe the
\* same result (the same new token, or failure together).  A call whose 401
\* arrives after the refresh has settled sends a refresh request of its own.
C2_Amended ==
    /\ [](C2_SameResult /\ C2_OneRequestPerRefresh)
    /\ [][C2_JoinStep /\ C2_StartStep]_vars

\* two calls awaited the refresh one of them started and both retried with
\* the token it yielded
C2_Witness ==
    \E c, d \in Calls :
        /\ c # d
        /\ call[c].awaits # 0 /\ call[c].awaits = call[d].awaits
        /\ prom[call[c].awaits].by = c
        /\ Observed(c) /\ Observed(d)
        /\ call[c].newToken # NoToken
        /\ Len(call[c].sent) = 2 /\ Len(call[d].sent) = 2
        /\ call[c].sent[2] = call[d].sent[2]

----------------------------------------------------------------------------
\* a call waiting for its retry only returns or fails: it sends nothing more
C3_RetryStep ==
    \A c \in Calls :
        (call[c].pc = "req2" /\ call'[c] # call[c])
        => /\ call'[c].pc \in {"returned", "threw"}
           /\ call'[c].sent = call[c].sent
           /\ refreshCalls' = refreshCalls
           /\ prom' = prom
           /\ isRefreshing' = isRefreshing
           /\ refreshPromise' = refreshPromise

\* C3: one authenticatedFetch call sends at most two requests to its url; a
\* retry that is answered 401 leads to no third request and no second refresh.
C3_AtMostOneRetry ==
    /\ [](\A c \in Calls : Len(call[c].sent) <= 2)
    /\ [][C3_RetryStep]_vars

\* a call whose retry was answered 401 has returned
C3_Witness ==
    \E c \in Calls :
        /\ call[c].pc = "returned"
        /\ call[c].retAttempt = 2
        /\ call[c].status2 = Unauthorized
        /\ Len(call[c].sent) = 2

----------------------------------------------------------------------------
\* C4: after a 401 on the first request, a call returns the response of its
\* single retry, whatever its status, if the refresh yielded a token, and the
\* original 401 response if the refresh yielded none.
C4_ReturnAfter401 ==
    \A c \in Calls :
        (call[c].pc = "returned" /\ call[c].status1 = Unauthorized)
        => /\ call[c].newToken =
                  (IF call[c].awaits = 0 THEN NoToken ELSE prom[call[c].awaits].value)
           /\ IF call[c].newToken # NoToken
              THEN /\ call[c].retAttempt = 2
                   /\ call[c].retStatus = call[c].status2
                   /\ Len(call[c].sent) = 2
              ELSE /\ call[c].retAttempt = 1
                   /\ call[c].retStatus = Unauthorized
                   /\ Len(call[c].sent) = 1

\* one call returned the 500 of its retry, another the original 401 after a
\* refresh that yielded nothing
C4_Witness ==
    \E c, d \in Calls :
        /\ call[c].pc = "returned" /\ call[c].status1 = Unauthorized
        /\ call[c].retAttempt = 2 /\ call[c].retStatus = ServerError
        /\ call[d].pc = "returned" /\ call[d].status1 = Unauthorized
        /\ call[d].awaits # 0 /\ call[d].retAttempt = 1

----------------------------------------------------------------------------
\* C5: a first response with a status other than 401 is returned as it is:
\* no refresh request, no second request, session and in-flight marker
\* unchanged.
C5_PassThrough ==
    [][\A c \in Calls :
          (GetsFirstResponse(c) /\ call'[c].status1 # Unauthorized)
          => /\ call'[c].pc = "returned"
             /\ call'[c].retAttempt = 1
             /\ call'[c].retStatus = call'[c].status1
             /\ call'[c].sent = call[c].sent
             /\ call'[c].awaits = 0
             /\ UNCHANGED <<authRef, session, isRefreshing, refreshPromise,
                            prom, refreshCalls>>]_vars

\* a 403 was passed through while another call's refresh was pending
C5_Witness ==
    \E c \in Calls :
        /\ call[c].pc = "returned"
        /\ call[c].status1 = Forbidden
        /\ call[c].retStatus = Forbidden
        /\ Len(call[c].sent) = 1
        /\ isRefreshing

----------------------------------------------------------------------------
\* the refresh endpoint answered promise record pr with 401 or 403
HardFailure(pr) == ~pr.threw /\ pr.status \in {Unauthorized, Forbidden}

\* a refresh answered 401/403 has called logout once, has written no token
\* and yields none; the calls that awaited it get their 401 back, unretried
C6_Outcome ==
    \A p \in PromIds :
        HardFailure(prom[p])
        => /\ prom[p].logoutCalls = 1
           /\ prom[p].setTokenCalls = 0
           /\ prom[p].value = NoToken
           /\ prom[p].phase \in {"logout", "settled"}
           /\ \A c \in Calls :
                  (call[c].awaits = p /\ prom[p].phase = "settled")
                  => /\ call[c].pc = "returned"
                     /\ call[c].newToken = NoToken
                     /\ call[c].retAttempt = 1
                     /\ call[c].retStatus = Unauthorized
                     /\ Len(call[c].sent) = 1

\* the step that receives the 401/403 leaves the access token as it is
C6_ResponseStep ==
    \A p \in PromIds :
        (prom[p].phase = "fetch" /\ HardFailure(prom'[p]))
        => session'.token = session.token

\* C6: when the refresh endpoint answers 401 or 403 the refresh invokes
\* logout, writes no new access token and yields no token; the call that
\* triggered it receives the failure and is not retried.
C6_InvalidRefreshToken == []C6_Outcome /\ [][C6_ResponseStep]_vars

\* a refresh answered 403 has settled and its caller got the 401 back
C6_Witness ==
    \E p \in PromIds, c \in Calls :
        /\ prom[p].status = Forbidden /\ prom[p].phase = "settled"
        /\ prom[p].logoutCalls = 1
        /\ prom[p].by = c /\ call[c].awaits = p
        /\ call[c].pc = "returned" /\ call[c].retStatus = Unauthorized

----------------------------------------------------------------------------
\* promise record pr failed otherwise: network error, unparsable body, or a
\* non-2xx status other than 401/403
SoftFailure(pr) ==
    \/ pr.threw
    \/ pr.status # 0 /\ pr.status \notin 200..299
                     /\ pr.status \notin {Unauthorized, Forbidden}

C7_Outcome ==
    \A p \in PromIds :
        SoftFailure(prom[p])
        => /\ prom[p].phase = "settled"
           /\ prom[p].value = NoToken
           /\ prom[p].logoutCalls = 0
           /\ prom[p].setTokenCalls = 0

C7_FailureStep ==
    \A p \in PromIds :
        (prom[p].phase = "fetch" /\ SoftFailure(prom'[p]))
        => UNCHANGED <<session, authRef>>

\* C7: a refresh that fails for any reason other than a 401/403 status
\* returns null and leaves the session untouched: no logout, no token written.
C7_TransientFailure == []C7_Outcome /\ [][C7_FailureStep]_vars

\* one refresh was answered 500, another failed on the network, and the
\* login is still in place
C7_Witness ==
    \E p, q \in PromIds :
        /\ prom[p].phase = "settled" /\ prom[p].status = ServerError
        /\ prom[q].phase = "settled" /\ prom[q].threw /\ prom[q].status = 0
        /\ session = [token |-> LoginToken, refreshTokenValue |-> LoginToken]

----------------------------------------------------------------------------
\* the marker is set exactly while a refresh is pending, and names it
C8_Marker ==
    /\ isRefreshing <=> Pending # {}
    /\ IF Pending = {} THEN refreshPromise = 0 ELSE Pending = {refreshPromise}

\* the step that completes a refresh clears the marker
C8_SettleStep ==
    \A p \in PromIds :
        (prom[p].phase \in {"fetch", "logout"} /\ prom'[p].phase = "settled")
        => ~isRefreshing' /\ refreshPromise' = 0

\* a 401 that arrives when no refresh is pending sends a new refresh request
C8_FreshStep ==
    \A c \in Calls :
        (/\ GetsFirstResponse(c) /\ call'[c].status1 = Unauthorized
         /\ Pending = {}
         /\ authRef = "session" /\ session.refreshTokenValue # NoToken)
        => /\ refreshCalls' = refreshCalls + 1
           /\ call'[c].awaits = refreshCalls'
           /\ call'[c].pc = "refresh"
           /\ prom'[refreshCalls'].phase = "fetch"
           /\ isRefreshing' /\ refreshPromise' = refreshCalls'

\* C8: a refresh leaves the Refreshing state when it completes (success,
\* soft failure, logout or thrown error): the in-flight marker is cleared
\* and the next 401 starts a new refresh request instead of reusing the
\* completed result.
C8_MarkerCleared == []C8_Marker /\ [][C8_SettleStep /\ C8_FreshStep]_vars

\* a second refresh request is out after the first refresh completed
C8_Witness ==
    \E p, q \in PromIds :
        /\ prom[p].phase = "settled"
        /\ prom[q].phase = "fetch"
        /\ isRefreshing /\ refreshPromise = q
        /\ refreshCalls = 2

----------------------------------------------------------------------------
\* C9: with no refresh token in the session a refresh attempt returns null
\* at once, without a network call and without entering the Refreshing
\* state; the authenticatedFetch that triggered it returns its original 401.
C9_NoRefreshToken ==
    [][\A c \in Calls :
          (/\ GetsFirstResponse(c) /\ call'[c].status1 = Unauthorized
           /\ session.refreshTokenValue = NoToken)
          => /\ call'[c].pc = "returned"
             /\ call'[c].retAttempt = 1
             /\ call'[c].retStatus = Unauthorized
             /\ call'[c].newToken = NoToken
             /\ call'[c].awaits = 0
             /\ call'[c].sent = call[c].sent
             /\ UNCHANGED <<isRefreshing, refreshPromise, prom, refreshCalls,
                            session, authRef>>]_vars

\* a call got its 401 back without any refresh request ever being sent
C9_Witness ==
    \E c \in Calls :
        /\ call[c].pc = "returned"
        /\ call[c].status1 = Unauthorized
        /\ call[c].retStatus = Unauthorized
        /\ call[c].awaits = 0
        /\ session.refreshTokenValue = NoToken
        /\ refreshCalls = 0

----------------------------------------------------------------------------
\* C10: authenticatedFetch called before setAuthRef has registered a session
\* reference fails with an error, sends no request and changes no state.
C10_NotInitialized ==
    [][\A c \in Calls :
          (call[c].pc = "init" /\ authRef = "null" /\ call'[c] # call[c])
          => /\ call' = [call EXCEPT ![c].pc = "threw"]
             /\ UNCHANGED <<authRef, isRefreshing, refreshPromise, session,
                            prom, refreshCalls>>]_vars

\* a call has failed before any registration, having sent nothing
C10_Witness ==
    \E c \in Calls :
        /\ call[c].pc = "threw"
        /\ call[c].sent = <<>>
        /\ authRef = "null"

----------------------------------------------------------------------------
\* a call that has sent a second request got a 401 first, then awaited a
\* refresh that was answered 2xx with a new token and wrote it once, and the
\* second request carries that token; what it returns is the retry's response
C11_Order ==
    \A c \in Calls :
        Len(call[c].sent) = 2
        => /\ call[c].status1 = Unauthorized
           /\ call[c].awaits # 0
           /\ LET pr == prom[call[c].awaits]
              IN  /\ pr.phase = "settled" /\ ~pr.threw
                  /\ pr.status \in 200..299
                  /\ pr.setTokenCalls = 1
                  /\ pr.value # NoToken
                  /\ call[c].sent[2] = pr.value
           /\ call[c].sent[2] # call[c].sent[1]
           /\ (call[c].pc = "returned"
               => call[c].retAttempt = 2 /\ call[c].retStatus = call[c].status2)

\* the step that receives the new token writes it to the session and sends
\* the retries of the waiting calls with it
C11_WriteStep ==
    \A p \in PromIds :
        (prom[p].phase = "fetch" /\ prom'[p].phase = "settled"
                                 /\ prom'[p].value # NoToken)
        => /\ session'.token = prom'[p].value
           /\ \A c \in Calls :
                  (call[c].pc = "refresh" /\ call[c].awaits = p)
                  => /\ call'[c].pc = "req2"
                     /\ call'[c].sent = Append(call[c].sent, prom'[p].value)

\* C11: a successful refresh writes the new access token to the session and
\* the retried request carries exactly that token, not the expired one; the
\* order is request (401), refresh (200), retry, and the caller receives the
\* response of the retry.
C11_RetryCarriesNewToken == []C11_Order /\ [][C11_WriteStep]_vars

\* request with the login token (401), refresh (200), retry with the new
\* token (200), returned to the caller; the session holds the new token
C11_Witness ==
    \E c \in Calls :
        /\ call[c].pc = "returned"
        /\ call[c].status1 = Unauthorized
        /\ call[c].sent = <<LoginToken, FreshToken(1)>>
        /\ call[c].retAttempt = 2 /\ call[c].retStatus = OkStatus
        /\ session.token = FreshToken(1)

----------------------------------------------------------------------------
(* The order tracking synchronizer *)

\* a fetchActiveOrder invocation is awaiting its response
Polling == \E f \in FetchKinds : fetches[f] > 0

\* C12: once an order has been dismissed, no step makes an order with the
\* recorded dismissed id and status delivered the active order while the
\* dismissal stays recorded, whichever poll the step completes, one that was
\* in flight at the dismissal included
C12_Step ==
    (dismissedOrderId # NoId /\ dismissedOrderId' = dismissedOrderId)
        => ~(activeOrder'.id = dismissedOrderId /\ activeOrder'.status = "delivered")

C12_DismissedStaysHidden == [][C12_Step]_vars

\* C13: a step that handles a poll response carrying an order whose id
\* differs from the recorded dismissed id clears the dismissal, leaves
\* polling enabled and makes the fetched order the active order
C13_Step ==
    \A f \in FetchKinds, o \in Orders :
        (/\ PollResponse(f, Response(OkStatus, "json", o))
         /\ dismissedOrderId # NoId
         /\ o.id # dismissedOrderId)
            => (/\ dismissedOrderId' = NoId
                /\ isPollingEnabled'
                /\ activeOrder' = o)

C13_NewOrderClearsDismissal == [][C13_Step]_vars

\* C14: dismissBanner with an active order whose status is delivered records
\* its id as dismissed, clears the active order and leaves polling enabled and
\* its timer running; with any other status, or with no active order, it
\* changes none of activeOrder, dismissedOrderId, error, isPollingEnabled,
\* the polling timer and the polls in flight
C14_Step ==
    DismissBanner =>
        IF activeOrder # NoOrder /\ activeOrder.status = "delivered"
        THEN /\ dismissedOrderId' = activeOrder.id
             /\ activeOrder' = NoOrder
             /\ isPollingEnabled' /\ isPollingEnabled
             /\ interval' = interval
             /\ error' = error
        ELSE UNCHANGED <<activeOrder, dismissedOrderId, error, isPollingEnabled,
                         interval, fetches>>

C14_DismissOnlyDelivered == [][C14_Step]_vars

\* a delivered order has been dismissed while signed in: nothing is shown and
\* the polling timer runs
C14_Witness ==
    /\ dismissedOrderId # NoId
    /\ activeOrder = NoOrder
    /\ isPollingEnabled
    /\ interval = 1

\* the poll responses that fail: a non-2xx status other than 404 and 401,
\* or no response at all
FailedResponses ==
    {Response(NoStatus, "none", NoOrder), Response(ServerError, "none", NoOrder)}

\* C15 as stated: a step that handles a failed poll records an error and
\* leaves the active order as it was
C15_OriginalStep ==
    \A f \in FetchKinds, r \in FailedResponses :
        PollResponse(f, r) => (error' # NoError /\ activeOrder' = activeOrder)

C15_AmendedStep ==
    \A f \in FetchKinds, r \in FailedResponses :
        PollResponse(f, r) => (error' \in ErrorMessages /\ activeOrder' = NoOrder)

C16_Step ==
    \A f \in FetchKinds :
        PollResponse(f, Response(NotFound, "none", NoOrder))
            => (/\ activeOrder' = NoOrder
                /\ dismissedOrderId' = NoId
                /\ error' = NoError
                /\ timeRemainingSeconds' = NullSeconds
                /\ countdownInitialized' = NoId)

C16_NotFoundClears == [][C16_Step]_vars

\* signed in, the last response was a 404 and no poll awaits a response:
\* nothing is shown, recorded or counted down
C16_Witness ==
    /\ authToken # NoToken
    /\ ~Polling
    /\ activeOrder = NoOrder
    /\ dismissedOrderId = NoId
    /\ error = NoError
    /\ timeRemainingSeconds = NullSeconds
    /\ logged = NotFound

\* timeRemainingSeconds stays as it is or goes down by one second
TickOrSame ==
    \/ timeRemainingSeconds' = timeRemainingSeconds
    \/ /\ ~timeRemainingSeconds.isNull
       /\ timeRemainingSeconds' = Seconds(timeRemainingSeconds.v - 1)

\* C17: while the countdown is initialised for the active order's id, a step
\* of the mounted tracking screen that keeps that id and keeps the status
\* within assigned and out_for_delivery keeps the countdown initialised for it
\* and changes timeRemainingSeconds by a one-second decrement at most,
\* whatever estimate or assigned_at the polled order carries
C17_Step ==
    (/\ countdownInitialized # NoId
     /\ mounted' = "screen"
     /\ countdownInitialized = activeOrder.id
     /\ activeOrder'.id = activeOrder.id
     /\ activeOrder.status \in {"assigned", "out_for_delivery"}
     /\ activeOrder'.status \in {"assigned", "out_for_delivery"})
        => (countdownInitialized' = countdownInitialized /\ TickOrSame)

C18_NonNegative == timeRemainingSeconds.isNull \/ timeRemainingSeconds.v >= 0

\* C18: at 0 it stays 0 in every step of the mounted tracking screen that
\* keeps the active order's id and status
C18_Step ==
    (/\ timeRemainingSeconds = Seconds(0)
     /\ mounted' = "screen"
     /\ activeOrder'.id = activeOrder.id
     /\ activeOrder'.status = activeOrder.status)
        => timeRemainingSeconds' = Seconds(0)

ExpectedSeconds(order, clock) ==
    LET capped == Max(10, Min(order.est, 60)) * 60
    IN  IF order.assignedAt # NoTime
        THEN Max(0, capped - (clock - order.assignedAt))
        ELSE capped

\* C19: a step that initialises the countdown for an order id sets
\* timeRemainingSeconds to the value the order's estimated minutes and
\* assigned_at call for (3600 for an estimate of 200 and no assigned_at)
C19_Step ==
    (countdownInitialized' # NoId /\ countdownInitialized' # countdownInitialized)
        => timeRemainingSeconds' = Seconds(ExpectedSeconds(activeOrder', now))

C19_InitialFromEstimate == [][C19_Step]_vars

\* C20: a countdown exists only for the active order: if one is initialised
\* it is for the active order's id, that order is assigned or
\* out_for_delivery and timeRemainingSeconds has a value; with no active
\* order or another status there is neither value nor initialised-for id
C20_OnlyForActiveOrder ==
    /\ countdownInitialized # NoId
           => (/\ activeOrder.id = countdownInitialized
               /\ activeOrder.status \in {"assigned", "out_for_delivery"}
               /\ ~timeRemainingSeconds.isNull)
    /\ countdownInitialized = NoId => timeRemainingSeconds = NullSeconds
    /\ (activeOrder = NoOrder
        \/ activeOrder.status \notin {"assigned", "out_for_delivery"})
           => (countdownInitialized = NoId /\ timeRemainingSeconds = NullSeconds)

\* C20: a step that changes the active order's id to that of an order in
\* assigned or out_for_delivery starts that order's countdown afresh
C20_Step ==
    (/\ mounted = "screen"
     /\ activeOrder'.id # activeOrder.id
     /\ activeOrder'.status \in {"assigned", "out_for_delivery"})
        => (/\ countdownInitialized' = activeOrder'.id
            /\ timeRemainingSeconds' = Seconds(InitialSeconds(activeOrder', now)))

C20_NeverCarriedOver == []C20_OnlyForActiveOrder /\ [][C20_Step]_vars

\* after time has passed a delivered order is shown without a countdown
C20_Witness ==
    /\ activeOrder.status = "delivered"
    /\ timeRemainingSeconds = NullSeconds
    /\ countdownInitialized = NoId
    /\ now > ClockStart

\* the synchronizer is torn down: the session is lost or the provider is
\* unmounted
TornDown == authToken = NoToken \/ ~user \/ mounted = "gone"

\* C21: once torn down there is neither a polling timer nor a countdown timer
C21_TimersCancelled == TornDown => (interval = 0 /\ ~CountdownTimer)

\* C21: once torn down, no step of a timer changes the order, the dismissal,
\* the error or the countdown
C21_Step ==
    (TornDown /\ (PollTick \/ Second))
        => UNCHANGED <<activeOrder, dismissedOrderId, error, timeRemainingSeconds,
                       countdownInitialized>>

C21_TornDownCancelsTimers == []C21_TimersCancelled /\ [][C21_Step]_vars

\* C22: at most one polling interval timer is alive
C22_AtMostOneInterval == interval <= 1

\* the polling loop has been restarted by a token change and by a dismissal,
\* and one interval timer is alive
C22_Witness ==
    /\ interval = 1
    /\ authToken = FreshToken(1)
    /\ dismissedOrderId # NoId

\* the poll responses whose handling throws: a non-2xx status without a
\* branch of its own, no response at all, a body that is not JSON
ThrowingResponses ==
    FailedResponses \cup {Response(OkStatus, "garbled", NoOrder)}

\* C23: a step that handles a poll response, whatever the response, leaves
\* the number of polling timers as it was, so the next tick comes; if the
\* handling throws, the step ends with the message in the error field
C23_Step ==
    \A f \in FetchKinds, r \in Responses :
        PollResponse(f, r)
            => (/\ interval' = interval
                /\ ~SkipFetch(authToken, user, isPollingEnabled) => interval' = 1
                /\ r \in ThrowingResponses => error' \in ErrorMessages)

C24_Step ==
    Total(fetches') > Total(fetches)
        => \E c \in Calls : call[c].pc = "init" /\ call'[c].pc # "init"

C24_AfterRefresh == logged = Unauthorized => refreshCalls > 0

C24_PollsThroughCoordinator == []C24_AfterRefresh /\ [][C24_Step]_vars

\* C25: resumePolling clears the recorded dismissal, leaves polling enabled
\* and changes neither the active order nor the error
C25_ResumeStep ==
    ResumePolling
        => (/\ dismissedOrderId' = NoId
            /\ isPollingEnabled'
            /\ activeOrder' = activeOrder
            /\ error' = error)

\* C25: the response to a poll issued with no dismissal recorded, as every
\* poll issued after resumePolling is, makes the order it carries the active
\* order, a delivered order that was dismissed before included
C25_PollStep ==
    \A f \in FetchKinds, o \in Orders :
        (PollResponse(f, Response(OkStatus, "json", o)) /\ f.dismissed = NoId)
            => activeOrder' = o

----------------------------------------------------------------------------
(* C26 *)

\* the requests a step issues: the growth of the pending invocations, plus
\* the one that a handled response takes away
C26_Issued ==
    Total(fetches') - Total(fetches)
        + (IF \E f \in FetchKinds, r \in Responses :
                  PollResponse(f, r) \/ LateResponse(f, r)
           THEN 1 ELSE 0)

\* the polling effect runs again with a session and polling enabled
C26_Restart ==
    /\ ~SkipFetch(authToken', user', isPollingEnabled')
    /\ <<authToken', user', isPollingEnabled', dismissedOrderId'>>
           # <<authToken, user, isPollingEnabled, dismissedOrderId>>

C26_Step ==
    /\ C26_Restart => C26_Issued = 1
    /\ (PollTick /\ ~C26_Restart) => C26_Issued = 1
    /\ SkipFetch(authToken', user', isPollingEnabled') => C26_Issued = 0

\* C26: with a session and polling enabled a request is issued at once when
\* the polling loop starts or restarts and once per tick of the interval;
\* with no session or polling disabled no step issues a request, neither a
\* tick nor a refreshActiveOrder
C26_FetchOnlyWithSession == [][C26_Step]_vars

----------------------------------------------------------------------------
(* C27 *)

\* the text is a positive integer not exceeding the cap: digits only, with a
\* value in 1..TipCap
C27_PositiveInteger(text) ==
    /\ text # <<>>
    /\ \A i \in 1..Len(text) : IsDigit(text[i])
    /\ Decimal(text) \in 1..TipCap

\* the text does not start with an integer in 1..TipCap
C27_Unacceptable(text) ==
    LET amount == ParseInt(text)
    IN  amount.nan \/ amount.value <= 0 \/ amount.value > TipCap

\* the submitted amount is rejected: an error alert, no confirmation to save
\* from, no POST, no call of the coordinator, the selected tip as it was
C27_Rejected ==
    /\ alert'.title = "Error"
    /\ selectedTip' = selectedTip
    /\ saving' = saving
    /\ coordVars' = coordVars

C27_PostInRange == saving'.pending => saving'.amount \in 1..TipCap

C27_OriginalStep ==
    /\ (HandleCustomTipSubmit /\ ~C27_PositiveInteger(customTipAmount))
           => C27_Rejected
    /\ C27_PostInRange

\* C27 as stated: a custom amount that is not a positive integer up to 500
\* (non-numeric, <= 0 or > 500) is rejected before any network call and
\* leaves the selected tip unchanged, and every add-tip POST carries an
\* amount in 1..500
C27_Original == [][C27_OriginalStep]_vars

C27_AmendedStep ==
    /\ (HandleCustomTipSubmit /\ C27_Unacceptable(customTipAmount))
           => C27_Rejected
    /\ (HandleCustomTipSubmit /\ ~C27_Unacceptable(customTipAmount))
           => /\ alert'.title = "Add Tip"
              /\ alert'.amount = ParseInt(customTipAmount).value
    /\ SaveTip => saving'.amount = alert.amount
    /\ C27_PostInRange

\* C27, amended: a custom amount whose text does not start with an integer,
\* or starts with one that is <= 0 or > 500, is rejected before any network
\* call and leaves the selected tip unchanged; a text that starts with an
\* integer in 1..500 is offered for confirmation as that integer, whatever
\* follows the digits; every add-tip POST carries an amount in 1..500
C27_TipValidated == [][C27_AmendedStep]_vars

\* an amount over the cap has been rejected while a tip was selected
C27_Witness ==
    /\ alert = ErrorAlert("Maximum tip amount is 500")
    /\ customTipAmount = <<"5", "5", "0">>
    /\ selectedTip \in PresetTips

----------------------------------------------------------------------------
(* C28 *)

C28_Step ==
    \A f \in FetchKinds, o \in Orders :
        (/\ PollResponse(f, Response(OkStatus, "json", o))
         /\ dismissedOrderId # NoId
         /\ o.id = dismissedOrderId
         /\ o.status = "delivered")
            => UNCHANGED <<activeOrder, dismissedOrderId, error, isPollingEnabled>>

\* C28: a step that handles a poll response carrying the order with the
\* recorded dismissed id in status delivered changes none of activeOrder,
\* dismissedOrderId, error and isPollingEnabled
C28_DismissedDiscarded == [][C28_Step]_vars

----------------------------------------------------------------------------
(* C29 *)

C29_Step ==
    refreshCalls' # refreshCalls
        => /\ refreshCalls' = refreshCalls + 1
           /\ \E c \in Calls :
                  /\ call[c].pc = "req1"
                  /\ call'[c].status1 = Unauthorized
                  /\ call'[c].pc = "refresh"
                  /\ call'[c].awaits = refreshCalls'

\* C29: every step that sends a request to the refresh endpoint is the step
\* in which an authenticatedFetch call receives a 401 for its first request,
\* the one it has not retried, and that call then awaits the refresh; no
\* other step (registration, a non-401 response, the response to a retry, a
\* poll, a timer) sends one
C29_RefreshOnlyOn401 == [][C29_Step]_vars

\* a call got a 401 for its first request and awaits the refresh it started
C29_Witness ==
    \E c \in Calls :
        /\ call[c].pc = "refresh"
        /\ call[c].status1 = Unauthorized
        /\ call[c].awaits = refreshCalls
        /\ prom[refreshCalls].by = c
        /\ prom[refreshCalls].phase = "fetch"

----------------------------------------------------------------------------
(* C30 *)

C30_Step ==
    \A f \in FetchKinds, o \in Orders :
        (/\ PollResponse(f, Response(OkStatus, "json", o))
         /\ ~StillDismissed(f.dismissed, o))
            => activeOrder' = o

\* C30: a step that handles a poll response whose order is accepted makes
\* that order, with every field as fetched, the active order, whatever the
\* previous active order was and whichever other invocations, of the timer
\* or of refreshActiveOrder, are still awaiting their responses: the active
\* order is always the snapshot of the accepted response handled last
C30_LastResponseWins == [][C30_Step]_vars

\* an order is on display while an invocation of the timer and one of
\* refreshActiveOrder both await their responses
C30_Witness ==
    /\ activeOrder # NoOrder
    /\ fetches[[dismissed |-> NoId, manual |-> FALSE]] > 0
    /\ fetches[[dismissed |-> NoId, manual |-> TRUE]] > 0

----------------------------------------------------------------------------
(* C31 *)

\* a refresh that called setToken did so once, on a 2xx response, and
\* neither called logout nor threw
C31_SetTokenOnlyOnOk ==
    \A p \in PromIds :
        /\ prom[p].setTokenCalls <= 1
        /\ prom[p].setTokenCalls = 1
               => /\ prom[p].status \in 200..299
                  /\ prom[p].logoutCalls = 0
                  /\ ~prom[p].threw
        /\ prom[p].phase = "unused" => prom[p].setTokenCalls = 0

\* the session's access token is given a new value only by the login of the
\* auth context or by the setToken of a refresh whose request is answered
C31_WriteStep ==
    (session'.token # session.token /\ session'.token # NoToken)
        => \/ Login
           \/ \E p \in PromIds :
                  /\ prom[p].phase = "fetch"
                  /\ prom'[p].setTokenCalls = prom[p].setTokenCalls + 1
                  /\ session'.token = prom'[p].value

\* C31: setToken is invoked only on a 2xx refresh response, at most once per
\* refresh request, never by a refresh that invoked logout; once the auth
\* context has set up the session, nothing but that setToken gives the
\* access token a new value
C31_CoordinatorWritesToken == []C31_SetTokenOnlyOnOk /\ [][C31_WriteStep]_vars

\* a refresh has stored its token in the session
C31_Witness ==
    \E p \in PromIds :
        /\ prom[p].setTokenCalls = 1
        /\ prom[p].phase = "settled"
        /\ session.token = FreshToken(p)

----------------------------------------------------------------------------
(* C32 *)

\* the caller's headers that name neither Authorization nor Content-Type
C32_OtherNames ==
    {i \in 1..Len(HeaderNames) :
        Lower(HeaderNames[i]) \notin {"authorization", "content-type"}}

\* C32: whatever headers the caller supplies, ones that name Authorization
\* or Content-Type included, the request sent carries Authorization: Bearer
\* <token> and Content-Type: application/json, and every other caller header
\* with the value the caller gave it
C32_HeadersMerged ==
    result.of = "makeRequest"
        => /\ result.headers["authorization"] = <<Bearer(arguments.token)>>
           /\ result.headers["content-type"] = <<"application/json">>
           /\ \A i \in C32_OtherNames :
                  arguments.headers[i] # Absent
                      => result.headers[Lower(HeaderNames[i])]
                             = <<arguments.headers[i]>>

----------------------------------------------------------------------------
(* C33 *)

\* C33: while a dismissal is recorded, no order with the dismissed id is the
\* active order, whatever its status
C33_DismissedNotVisible ==
    dismissedOrderId # NoId => activeOrder.id # dismissedOrderId

----------------------------------------------------------------------------
(* C34 *)

C34_Step ==
    \A f \in FetchKinds, r \in Responses :
        (/\ SkipFetch(authToken, user, isPollingEnabled)
         /\ interval = 0
         /\ PollResponse(f, r))
            => UNCHANGED <<activeOrder, error, dismissedOrderId>>

\* C34: a step that handles a poll response while there is no session (no
\* token or no user) or no polling loop (no interval timer) changes none of
\* activeOrder, error and dismissedOrderId
C34_LateResponseIgnored == [][C34_Step]_vars

\* C35: polling is enabled in every reachable state: no operation of the
\* provider (a poll response, dismissBanner, resumePolling) disables it
C35_PollingAlwaysEnabled == isPollingEnabled = TRUE

\* a delivered order was dismissed and polling is still enabled
C35_Witness ==
    /\ dismissedOrderId # NoId
    /\ activeOrder = NoOrder
    /\ isPollingEnabled = TRUE

----------------------------------------------------------------------------
(* The countdown init effect taken alone: the value it computes from an    *)
(* order's assigned_at and the device clock                                *)

\* minutes by which assigned_at may lie before or after the device clock
MaxMinutesOff == 45

\* the assigned_at of the order: absent, or a time around the clock's
AssignedTimes ==
    {NoTime} \cup {ClockStart + 60 * k : k \in (0 - MaxMinutesOff)..MaxMinutesOff}

CountdownInit ==
    /\ SyncInit
    /\ CoordInit
    /\ arguments \in [of : {"countdown"},
                       order : [id : {1}, status : {"assigned", "out_for_delivery"},
                                assignedAt : AssignedTimes,
                                est : {DefaultMinutes, 200}]]
    /\ result = NoResult

\* the init effect runs for the order: setTimeRemainingSeconds(remainingSeconds)
InitialSecondsAlone ==
    /\ arguments.of = "countdown"
    /\ result = NoResult
    /\ result' = [of |-> "countdown",
                  seconds |-> InitialSeconds(arguments.order, now)]
    /\ UNCHANGED <<coordVars, syncVars, ratingVars, arguments>>

CountdownNext == InitialSecondsAlone

CountdownSpec == CountdownInit /\ [][CountdownNext]_vars

\* C36: the initial countdown value never exceeds 3600 seconds (the 60
\* minute clamp), whatever the order's assigned_at, a time later than the
\* device clock included
C36_InitialWithinClamp ==
    result.of = "countdown" => result.seconds <= 60 * 60

----------------------------------------------------------------------------
(* The countdown under its one-second timer: the tracking screen with      *)
(* orders assigned almost a full countdown ago, so that the countdown      *)
(* runs out within a few ticks                                             *)

\* orders whose countdown starts with at most MaxSeconds + 1 seconds left
TickOrders ==
    {[id |-> i, status |-> s, assignedAt |-> ClockStart - DefaultMinutes * 60 + k,
      est |-> DefaultMinutes] :
        i \in OrderIds, s \in OrderStatuses, k \in 0..(MaxSeconds + 1)}

TickResponses ==
    {Response(NotFound, "none", NoOrder)}
    \cup {Response(OkStatus, "json", o) : o \in TickOrders}

\* the interval of the tick effect fires, one second after the effect set
\* it: setTimeRemainingSeconds(prev => ...); the interval exists only while
\* the effect found a positive value
Tick ==
    /\ CountdownTimer
    /\ now' = now + 1
    /\ timeRemainingSeconds' = TickValue(timeRemainingSeconds)
    /\ UNCHANGED <<authToken, user, activeOrder, loading, error, isPollingEnabled,
                   dismissedOrderId, interval, logged, fetches,
                   countdownInitialized, saving, mounted, tipVars>>
    /\ UNCHANGED <<coordVars, pureVars, ratingVars>>

TickNext ==
    \/ SignIn
    \/ PollTick
    \/ \E f \in FetchKinds, r \in TickResponses : PollResponse(f, r)
    \/ OpenTracking
    \/ CloseTracking
    \/ Tick

\* setInterval(..., 1000): an interval that exists fires
TickSpec == Init /\ [][TickNext]_vars /\ WF_vars(Tick)

\* the screen shows order i with a status that counts down
C37_Shows(i) ==
    /\ mounted = "screen"
    /\ activeOrder.id = i
    /\ ValidStatus(activeOrder.status)

\* the countdown of order i is at 0 and no interval is set
C37_AtZero(i) ==
    /\ C37_Shows(i)
    /\ timeRemainingSeconds = Seconds(0)
    /\ ~CountdownTimer

\* a tick takes exactly one second off a running countdown
C37_Step ==
    Tick => /\ timeRemainingSeconds.v > 0
            /\ timeRemainingSeconds'.v = timeRemainingSeconds.v - 1

\* C37: while the active order keeps its id and a status that counts down,
\* the countdown, ticking every second, eventually reaches 0; each tick
\* takes exactly 1 off it, and at 0 the tick timer is no longer set
C37_CountdownRunsOut ==
    /\ [][C37_Step]_vars
    /\ [](timeRemainingSeconds = Seconds(0) => ~CountdownTimer)
    /\ \A i \in OrderIds : C37_Shows(i) ~> (C37_AtZero(i) \/ ~C37_Shows(i))

\* a countdown that started above 1 has been ticked down to 0
C37_Witness ==
    /\ mounted = "screen"
    /\ ValidStatus(activeOrder.status)
    /\ timeRemainingSeconds = Seconds(0)
    /\ now >= ClockStart + 2
    /\ activeOrder.assignedAt = ClockStart - DefaultMinutes * 60 + 2

\* the refreshActiveOrder calls awaiting their fetchActiveOrder
C38_Outstanding ==
    Sum(fetches, {f \in FetchKinds : f.manual})

\* C38: loading is true whenever at least one refreshActiveOrder call is
\* outstanding, overlapping refreshes completing in any order included, and
\* false once all of them have completed
C38_LoadingWhileRefreshing ==
    mounted # "gone" => (loading <=> C38_Outstanding > 0)

\* C39: in refreshAccessToken the test for a missing refresh token comes
\* before the joining of a pending refresh: a caller that gets its 401 while
\* a refresh is in flight but finds no refresh token returns null at once,
\* without joining and without a network call
C39_Step ==
    \A c \in Calls :
        (/\ GetsFirstResponse(c)
         /\ call'[c].status1 = Unauthorized
         /\ isRefreshing /\ refreshPromise # 0
         /\ session.refreshTokenValue = NoToken)
            => /\ call'[c].pc = "returned"
               /\ call'[c].retStatus = Unauthorized
               /\ call'[c].newToken = NoToken
               /\ call'[c].awaits = 0
               /\ call'[c].sent = call[c].sent
               /\ UNCHANGED <<isRefreshing, refreshPromise, prom, refreshCalls,
                              session>>

C39_MissingTokenBeforeJoin == [][C39_Step]_vars

\* a call made after the refresh began got its 401 back, without joining,
\* while that refresh is still awaiting its response and the refresh token
\* is gone
C39_Witness ==
    \E c \in Calls :
        /\ call[c].pc = "returned"
        /\ call[c].status1 = Unauthorized
        /\ call[c].awaits = 0
        /\ ~call[c].noRefreshYet
        /\ refreshCalls = 1
        /\ prom[1].phase = "fetch"
        /\ isRefreshing
        /\ session.refreshTokenValue = NoToken

----------------------------------------------------------------------------
(* the rating of the delivery partner on the tracking screen *)

\* rate-partner POSTs that may await their response at a time
MaxRatePosts == 2

\* the stars: [1, 2, 3, 4, 5].map(...)
Stars == 1..5

\* a rate-partner POST awaiting its response: its body, and whether the
\* screen it belongs to is still mounted
RatePost(rating, orderId) ==
    [partner_rating |-> rating, order_id |-> orderId, screen |-> TRUE]

\* Alert.alert('Thank you!', ...)
ThanksAlert ==
    [title |-> "Thank you!",
     message |-> "Your rating for the delivery partner has been submitted.",
     amount |-> NoTip, skip |-> FALSE, dismissed |-> NoId]

\* how the POST ends: response.ok, a response that is not ok, or a throw
RateOutcomes == {"ok", "failed", "threw"}

\* handleSubmitPartnerRating: if (!activeOrder?.delivery_partner || submittingRating) return
RatingIgnored(order, partner, submitting) ==
    ~(order # NoOrder /\ partner) \/ submitting

\* handleSubmitPartnerRating(rating) up to its await, on a screen whose
\* active order has a delivery partner or not: the guard, setPartnerRating,
\* setSubmittingRating(true) and the POST; no alert is in the way of the stars
HandleSubmitPartnerRating(rating, partner) ==
    /\ mounted = "screen"
    /\ alert = NoAlert
    /\ IF RatingIgnored(activeOrder, partner, submittingRating)
       THEN UNCHANGED ratingVars
       ELSE /\ Len(ratePosts) < MaxRatePosts
            /\ partnerRating' = rating
            /\ submittingRating' = TRUE
            /\ ratePosts' = Append(ratePosts, RatePost(rating, activeOrder.id))
    /\ UNCHANGED <<saving, tipVars>>
    /\ UNCHANGED trackVars
    /\ UNCHANGED <<coordVars, pureVars>>

\* the i-th POST ends: the alert, setPartnerRating(0) unless response.ok, and
\* setSubmittingRating(false) of the finally block; the state of a screen
\* that has unmounted is not set
RateResponse(i, outcome) ==
    /\ i \in DOMAIN ratePosts
    /\ mounted # "gone"
    /\ ratePosts' = SubSeq(ratePosts, 1, i - 1)
                        \o SubSeq(ratePosts, i + 1, Len(ratePosts))
    /\ alert' = IF outcome = "ok"
                THEN ThanksAlert
                ELSE ErrorAlert("Failed to submit rating. Please try again.")
    /\ partnerRating' = IF ratePosts[i].screen /\ outcome # "ok"
                        THEN 0 ELSE partnerRating
    /\ submittingRating' = IF ratePosts[i].screen THEN FALSE ELSE submittingRating
    /\ UNCHANGED <<saving, selectedTip, customTipAmount, showCustomTipModal>>
    /\ UNCHANGED trackVars
    /\ UNCHANGED <<coordVars, pureVars>>

RatingNext ==
    \/ SignIn
    \/ \E f \in FetchKinds, r \in Responses : PollResponse(f, r)
    \/ OpenTracking
    \/ CloseTracking
    \/ \E rating \in Stars, partner \in BOOLEAN :
           HandleSubmitPartnerRating(rating, partner)
    \/ \E i \in 1..MaxRatePosts, outcome \in RateOutcomes : RateResponse(i, outcome)
    \/ DismissAlert

RatingSpec == Init /\ [][RatingNext]_vars

\* at most one POST awaits its response, and each carries a rating of 1 to 5
C40_Posts ==
    /\ Len(ratePosts) <= 1
    /\ \A i \in DOMAIN ratePosts : ratePosts[i].partner_rating \in 1..5

\* an invocation during a submission or without a delivery partner sets
\* nothing; a submission that fails on its screen puts the rating back to 0
C40_Step ==
    /\ \A rating \in Stars, partner \in BOOLEAN :
           (/\ HandleSubmitPartnerRating(rating, partner)
            /\ (submittingRating \/ activeOrder = NoOrder \/ ~partner))
               => UNCHANGED <<ratingVars, alert>>
    /\ \A i \in 1..MaxRatePosts, outcome \in RateOutcomes \ {"ok"} :
           (RateResponse(i, outcome) /\ ratePosts[i].screen)
               => partnerRating' = 0

\* C40: at most one rate-partner POST is outstanding at a time;
\* handleSubmitPartnerRating invoked during a submission, or for an order
\* without a delivery partner, does nothing; every rating sent is between 1
\* and 5; a failed submission puts the displayed rating back to 0
C40_OneRatingAtATime == []C40_Posts /\ [][C40_Step]_vars
====
